---- MODULE Spec2Model ----
(***************************************************************************)
(* Model of the ledis-backed stream handle of golfstream                   *)
(* (src/backend/ledis.go): one stream key, its RWMutex delLock, and the    *)
(* callers' threads running Add, Read, the iterator's Next, and Del step   *)
(* by step, one storage-engine or lock call per step; of the backend's     *)
(* table of handles (GetStream, release, Close); and of the registry of    *)
(* backend creators (src/backend/create.go).                               *)
(***************************************************************************)
EXTENDS Integers, Sequences, FiniteSets

\* ---------------------------------------------------------------- bounds
\* longest stream a single caller starts from
MaxLen == 4
\* length of the stream concurrent callers start from
ConcLen == 3
\* calls of Add/Read/Del one thread makes
MaxOps == 2
\* calls of Add/Read/Del all threads make together
MaxCalls == 3
\* lock releases one iterator is driven to (1 is the contract; above it the
\* caller keeps calling Next on a terminated iterator)
MaxRelease == 2
\* calls of RegisterCreator/Create/CreatorTypes one thread makes
MaxRegOps == 2
\* calls of GetStream one thread makes
MaxTableOps == 2

Threads == {1, 2}
SeqThreads == {1}

\* arguments the callers pass: afrom is a uint, ato an int
FromArgs == 0 .. (MaxLen + 1)
ToArgs == (0 - (MaxLen + 2)) .. (MaxLen + 1)

\* the ranges concurrent callers pass: the whole stream, a prefix, a suffix
\* and a middle range
ConcFromArgs == {0, 1}
ConcToArgs == {0 - 1, 2}

Nil == 0
NoIt == [num |-> 0 - 1, l |-> 0 - 1, rel |-> 0]
NoRet == [op |-> "none", ok |-> FALSE, err |-> "nil", kind |-> "none", evt |-> Nil]

\* the registry: type names, creators, and the shapes of Create's args
TypeNames == {"ledis", "mem"}
Creators == {1, 2}
NoCreator == 0
ConfigArgs == {"string", "other"}
NoRArg == [op |-> "none", btype |-> "ledis", creator |-> NoCreator, arg |-> "other"]
NoRRet == [op |-> "none", err |-> "nil", backend |-> NoCreator, types |-> {}]

\* the backend's table: stream names and the handles GetStream constructs
StreamNames == {"s1", "s2"}
NoName == "none"
NoHandle == 0
HandleIds == 1 .. (2 * MaxTableOps)

\* the thread's last call was not a Read
NoOut == <<0 - 1>>
NoPrev == [out |-> NoOut, err |-> "nil"]

VARIABLES
    list,      \* the engine's list under the stream's key
    readers,   \* delLock: number of read locks held
    wowner,    \* delLock: the thread that holds or is acquiring the write lock, 0 if none
    crashed,   \* the Go runtime ended the process (RUnlock of an unlocked RWMutex)
    nextId,    \* payload of the next event a caller adds
    pc,        \* each thread's position
    afrom,     \* the arguments of the thread's current or last call
    ato,
    from,      \* locals of the running call
    to,
    l,
    rest,
    evt,       \* the payload of the running Add
    it,        \* the iterator the thread holds (NoIt if none)
    ret,       \* what the thread's last call returned
    calls,     \* calls the thread has made
    pre,       \* the list when the thread's current or last call was made
    preR,      \* the read locks held when it was made
    added,     \* payloads whose Add returned nil
    out,       \* the events the sequence of the thread's last Read has yielded
    prev,      \* what the Read before yielded, when the last Read repeats it
    \* the registry of backend creators (src/backend/create.go)
    backends,  \* the creator registered under each type name
    block,     \* the thread that holds the registry's mutex, 0 if none
    rpc,       \* each thread's position in a registry call
    rarg,      \* the arguments of the thread's current or last registry call
    rret,      \* what the thread's last registry call returned
    invoked,   \* calls of creators made so far
    rcalls,    \* registry calls the thread has made
    \* the table of live handles of one ledisBackend
    data,      \* self.data: the handle under each stream name
    dataNil,   \* self.data is nil
    tableLock, \* self.lock: the thread that holds it, 0 if none
    refcnt,    \* each handle's refcnt
    hname,     \* each handle's name
    nextH,     \* the next handle GetStream constructs
    bpc,       \* each thread's position in a backend call
    bname,     \* GetStream's name argument
    bv,        \* GetStream's v, release's s
    snap,      \* whether self.data was nil when GetStream looked the name up
    holds,     \* how many times each thread holds each handle
    bret,      \* the handle the thread's last GetStream returned
    bcalls,    \* GetStream calls the thread has made
    closes,    \* Close calls made on the backend
    engineClosed, \* ledis.Close() has been called
    panicked   \* a run-time panic ended the process

streamvars == <<list, readers, wowner, crashed, nextId, pc, afrom, ato, from,
                to, l, rest, evt, it, ret, calls, pre, preR, added>>

ghost == <<out, prev>>

regvars == <<backends, block, rpc, rarg, rret, invoked, rcalls>>

tablevars == <<data, dataNil, tableLock, refcnt, hname, nextH, bpc, bname, bv,
               snap, holds, bret, bcalls, closes, engineClosed, panicked>>

\* what the calls on a stream handle leave alone
others == <<regvars, tablevars>>

vars == <<streamvars, ghost, regvars, tablevars>>

\* ------------------------------------------------- the storage engine
\* ledis list primitives, as the handle calls them (Redis list semantics:
\* indices are 0-based, ranges inclusive, negative indices count from the tail)
LLen(s) == Len(s)

LIndex(s, i) ==
    LET j == IF i >= 0 THEN i ELSE Len(s) + i
    IN IF j >= 0 /\ j < Len(s) THEN s[j + 1] ELSE Nil

LRange(s, start, stop) ==
    LET llen == Len(s)
        st1 == IF start < 0 THEN llen + start ELSE start
        sp1 == IF stop < 0 THEN llen + stop ELSE stop
        st2 == IF st1 < 0 THEN 0 ELSE st1
    IN IF st2 > sp1 \/ st2 >= llen THEN << >>
       ELSE SubSeq(s, st2 + 1, (IF sp1 >= llen THEN llen - 1 ELSE sp1) + 1)

LTrim(s, start, stop) ==
    LET llen == Len(s)
        st1 == IF start < 0 THEN llen + start ELSE start
        sp1 == IF stop < 0 THEN llen + stop ELSE stop
    IN IF st1 >= llen \/ st1 > sp1 THEN << >>
       ELSE SubSeq(s, (IF st1 < 0 THEN 0 ELSE st1) + 1,
                      (IF sp1 >= llen THEN llen - 1 ELSE sp1) + 1)

RPush(s, args) == s \o args

LClear(s) == Len(s)

\* ------------------------------------------------------ range helpers
checkRange(f, t, len) ==
    IF 0 <= f /\ f <= t /\ t <= len THEN "nil" ELSE "InvalidRange"

\* if x < 0 { x = l + 1 + x }
Normalize(x, len) == IF x < 0 THEN len + 1 + x ELSE x

\* ------------------------------------------- the handle's own decisions
\* a bug: the append is dropped when the list is not empty
AddPush_Lost(s, e) == IF s = << >> THEN RPush(s, <<e>>) ELSE s

\* Add, line 59: RPush(self.key, bs)
AddPush(s, e) == RPush(s, <<e>>)

\* Read, line 65: if from == to
ReadIsEmpty(f, t) == f = t

\* Read, line 84: if int(from) == to, after normalization
ReadIsEmptyNormalized(f, t) == f = t

\* Next, line 24: if self.num >= self.l
IterAtEnd(i) == i.num >= i.l

\* a bug: the empty range at 0 is not short-circuited
DelIsNoop_NotAtZero(f, t) == f = t /\ f # 0

\* Del, line 98: if from == to
DelIsNoop(f, t) == f = t

\* Del, line 105: if from == 0 && to == -1
DelIsWhole(f, t) == f = 0 /\ t = 0 - 1

\* Del, line 125: if from == 0 && to == l
DelIsWholeNormalized(f, t, len) == f = 0 /\ t = len

\* a bug: clearing reports success whatever was removed
DelClearRet_Always(cnt) == cnt >= 0

\* Del, lines 110 and 130: return cnt != 0
DelClearRet(cnt) == cnt # 0

\* Del, line 134: LTrim(self.key, int64(to-1), l)
DelPrefixTrim(s, t, len) == LTrim(s, t - 1, len)

\* a bug: the suffix trim keeps one element too many
DelSuffixTrim_OffByOne(s, f) == LTrim(s, 0, f)

\* Del, line 139: LTrim(self.key, 0, from-1)
DelSuffixTrim(s, f) == LTrim(s, 0, f - 1)

\* a bug: the saved tail starts one element late
DelTail_OffByOne(s, t, len) == LRange(s, t + 1, len)

\* Del, line 148: LRange(self.key, int32(to), int32(l))
DelTail(s, t, len) == LRange(s, t, len)

\* Del, line 153: LTrim(self.key, 0, from-1)
DelHeadTrim(s, f) == LTrim(s, 0, f - 1)

\* Del, line 158: RPush(self.key, rest...)
DelReappend(s, r) == RPush(s, r)

\* ------------------------------------------------------------- delLock
\* sync.RWMutex: RLock waits while a writer holds or is acquiring the lock
RLockFree == wowner = 0

\* sync.RWMutex: Lock takes the writers' mutex and announces itself
LockFree == wowner = 0

\* sync.RWMutex: Lock then waits for the readers to leave
LockGranted == readers = 0

\* ---------------------------------------------------------------- Init
\* a stream of n events, each its own payload
Stream(n) == [i \in 1 .. n |-> i]

\* create.go, lines 11-12: no creator is registered
InitRegistry ==
    /\ backends = [n \in TypeNames |-> NoCreator]
    /\ block = 0
    /\ rpc = [t \in Threads |-> "idle"]
    /\ rarg = [t \in Threads |-> NoRArg]
    /\ rret = [t \in Threads |-> NoRRet]
    /\ invoked = 0
    /\ rcalls = [t \in Threads |-> 0]

\* NewLedis, line 259: an empty table, the lock free
InitTable ==
    /\ data = [n \in StreamNames |-> NoHandle]
    /\ dataNil = FALSE
    /\ tableLock = 0
    /\ refcnt = [h \in HandleIds |-> 0]
    /\ hname = [h \in HandleIds |-> NoName]
    /\ nextH = 1
    /\ bpc = [t \in Threads |-> "idle"]
    /\ bname = [t \in Threads |-> NoName]
    /\ bv = [t \in Threads |-> NoHandle]
    /\ snap = [t \in Threads |-> FALSE]
    /\ holds = [t \in Threads |-> [h \in HandleIds |-> 0]]
    /\ bret = [t \in Threads |-> NoHandle]
    /\ bcalls = [t \in Threads |-> 0]
    /\ closes = 0
    /\ engineClosed = FALSE
    /\ panicked = FALSE

InitWith(lists) ==
    /\ list \in lists
    /\ readers = 0
    /\ wowner = 0
    /\ crashed = FALSE
    /\ nextId = Len(list) + 1
    /\ pc = [t \in Threads |-> "idle"]
    /\ afrom = [t \in Threads |-> 0]
    /\ ato = [t \in Threads |-> 0]
    /\ from = [t \in Threads |-> 0]
    /\ to = [t \in Threads |-> 0]
    /\ l = [t \in Threads |-> 0]
    /\ rest = [t \in Threads |-> << >>]
    /\ evt = [t \in Threads |-> Nil]
    /\ it = [t \in Threads |-> NoIt]
    /\ ret = [t \in Threads |-> NoRet]
    /\ calls = [t \in Threads |-> 0]
    /\ pre = [t \in Threads |-> << >>]
    /\ preR = [t \in Threads |-> 0]
    /\ added = {}
    /\ out = [t \in Threads |-> NoOut]
    /\ prev = [t \in Threads |-> NoPrev]
    /\ InitRegistry
    /\ InitTable

Init == InitWith({Stream(ConcLen)})

InitSeq == InitWith({Stream(n) : n \in 0 .. MaxLen})

\* ------------------------------------------------------------- helpers
locals == <<from, to, l, rest, evt>>
args == <<afrom, ato>>
lock == <<readers, wowner, crashed>>

TotalCalls ==
    LET sum[T \in SUBSET Threads] ==
            IF T = {} THEN 0
            ELSE LET x == CHOOSE y \in T : TRUE IN calls[x] + sum[T \ {x}]
    IN sum[Threads]

CanCall(t) == pc[t] = "idle" /\ calls[t] < MaxOps /\ TotalCalls < MaxCalls

Called(t, f, a) ==
    /\ calls' = [calls EXCEPT ![t] = @ + 1]
    /\ afrom' = [afrom EXCEPT ![t] = f]
    /\ ato' = [ato EXCEPT ![t] = a]
    /\ pre' = [pre EXCEPT ![t] = list]
    /\ preR' = [preR EXCEPT ![t] = readers]

Returns(t, r) ==
    /\ pc' = [pc EXCEPT ![t] = "idle"]
    /\ ret' = [ret EXCEPT ![t] = r]

ClearLocals(t) ==
    /\ from' = [from EXCEPT ![t] = 0]
    /\ to' = [to EXCEPT ![t] = 0]
    /\ l' = [l EXCEPT ![t] = 0]
    /\ rest' = [rest EXCEPT ![t] = << >>]
    /\ evt' = [evt EXCEPT ![t] = Nil]

\* sync.RWMutex.RUnlock: a run-time error (the process ends, and every thread
\* with it) if the lock is not held for reading; otherwise one read lock
\* less, whoever took it
RUnlockThenReturn(t, r) ==
    IF readers = 0
    THEN /\ crashed' = TRUE
         /\ pc' = [u \in Threads |-> "dead"]
         /\ UNCHANGED <<readers, ret>>
    ELSE /\ readers' = readers - 1
         /\ Returns(t, r)
         /\ UNCHANGED crashed

\* ----------------------------------------------------------------- Add
AddBadPayload(t) ==
    /\ CanCall(t)
    /\ Called(t, 0, 0)
    /\ Returns(t, [NoRet EXCEPT !.op = "Add", !.err = "InvalidPayload"])
    /\ UNCHANGED <<list, lock, nextId, locals, it, added>>
    /\ out' = [out EXCEPT ![t] = NoOut]
    /\ prev' = [prev EXCEPT ![t] = NoPrev]
    /\ UNCHANGED others

CallAdd(t) ==
    /\ CanCall(t)
    /\ Called(t, 0, 0)
    /\ evt' = [evt EXCEPT ![t] = nextId]
    /\ nextId' = nextId + 1
    /\ pc' = [pc EXCEPT ![t] = "add_rlock"]
    /\ UNCHANGED <<list, lock, from, to, l, rest, it, ret, added>>
    /\ out' = [out EXCEPT ![t] = NoOut]
    /\ prev' = [prev EXCEPT ![t] = NoPrev]
    /\ UNCHANGED others

AddRLock(t) ==
    /\ pc[t] = "add_rlock"
    /\ RLockFree
    /\ readers' = readers + 1
    /\ pc' = [pc EXCEPT ![t] = "add_push"]
    /\ UNCHANGED <<list, wowner, crashed, nextId, args, locals, it, ret, calls,
                   pre, preR, added>>
    /\ UNCHANGED <<ghost, others>>

AddRPush(t) ==
    /\ pc[t] = "add_push"
    /\ list' = AddPush(list, evt[t])
    /\ pc' = [pc EXCEPT ![t] = "add_unlock"]
    /\ UNCHANGED <<lock, nextId, args, locals, it, ret, calls, pre, preR, added>>
    /\ UNCHANGED <<ghost, others>>

AddRUnlock(t) ==
    /\ pc[t] = "add_unlock"
    /\ RUnlockThenReturn(t, [NoRet EXCEPT !.op = "Add"])
    /\ added' = IF readers = 0 THEN added ELSE added \cup {evt[t]}
    /\ ClearLocals(t)
    /\ UNCHANGED <<list, wowner, nextId, args, it, calls, pre, preR>>
    /\ UNCHANGED <<ghost, others>>

\* ---------------------------------------------------------------- Read
\* what the thread's last Read and the sequence it returned have given the
\* caller: the events, and Read's error
Yielded(t) ==
    [out |-> out[t], err |-> IF ret[t].op = "Read" THEN ret[t].err ELSE "nil"]

\* the thread's last call was a Read of the same range, its sequence has
\* ended, and the stream is as that Read found it
Repeats(t, f, a) ==
    /\ out[t] # NoOut
    /\ f = afrom[t] /\ a = ato[t]
    /\ list = pre[t]

\* a bug: the cursor starts further on with every call made
IterStart_Stale(f) == f + (TotalCalls - 1)

\* Read, line 92: the iterator's cursor starts at int32(from)
IterStart(f) == f

\* lines 63-67: from == to returns stream.Empty() before any lock
CallRead(t, F, A) ==
    /\ CanCall(t)
    /\ it[t] = NoIt \/ it[t].rel >= 1
    /\ \E f \in F, a \in A :
        /\ Called(t, f, a)
        /\ it' = [it EXCEPT ![t] = NoIt]
        /\ prev' = [prev EXCEPT ![t] = IF Repeats(t, f, a) THEN Yielded(t)
                                       ELSE NoPrev]
        /\ IF ReadIsEmpty(f, a)
           THEN /\ Returns(t, [NoRet EXCEPT !.op = "Read", !.kind = "empty"])
                /\ UNCHANGED <<from, to>>
           ELSE /\ pc' = [pc EXCEPT ![t] = "read_rlock"]
                /\ from' = [from EXCEPT ![t] = f]
                /\ to' = [to EXCEPT ![t] = a]
                /\ UNCHANGED ret
    /\ out' = [out EXCEPT ![t] = << >>]
    /\ UNCHANGED <<list, lock, nextId, l, rest, evt, added>>
    /\ UNCHANGED others

\* line 69
ReadRLock(t) ==
    /\ pc[t] = "read_rlock"
    /\ RLockFree
    /\ readers' = readers + 1
    /\ pc' = [pc EXCEPT ![t] = "read_llen"]
    /\ UNCHANGED <<list, wowner, crashed, nextId, args, locals, it, ret, calls,
                   pre, preR, added>>
    /\ UNCHANGED <<ghost, others>>

\* lines 71-92: LLen, normalization, the empty range, checkRange, the iterator;
\* none of the three returns releases the read lock
ReadLLen(t) ==
    /\ pc[t] = "read_llen"
    /\ LET len == LLen(list)
           t2 == Normalize(to[t], len)
           f2 == Normalize(from[t], len)
       IN IF ReadIsEmptyNormalized(f2, t2)
          THEN /\ Returns(t, [NoRet EXCEPT !.op = "Read", !.kind = "empty"])
               /\ UNCHANGED it
          ELSE IF checkRange(f2, t2, len) # "nil"
          THEN /\ Returns(t, [NoRet EXCEPT !.op = "Read",
                                           !.err = checkRange(f2, t2, len)])
               /\ UNCHANGED it
          ELSE /\ Returns(t, [NoRet EXCEPT !.op = "Read", !.kind = "iter"])
               /\ it' = [it EXCEPT ![t] = [num |-> IterStart(f2), l |-> t2,
                                           rel |-> 0]]
    /\ ClearLocals(t)
    /\ UNCHANGED <<list, lock, nextId, args, calls, pre, preR, added>>
    /\ UNCHANGED <<ghost, others>>

\* ---------------------------------------------------------------- Next
CanNext(t) == pc[t] = "idle" /\ it[t] # NoIt

\* lines 29-36: LIndex at the cursor, then the cursor advances
IterNextFetch(t) ==
    /\ CanNext(t)
    /\ ~IterAtEnd(it[t])
    /\ Returns(t, [NoRet EXCEPT !.op = "Next", !.kind = "event",
                                !.evt = LIndex(list, it[t].num)])
    /\ it' = [it EXCEPT ![t].num = @ + 1]
    /\ UNCHANGED <<list, lock, nextId, args, locals, calls, pre, preR, added>>
    /\ out' = [out EXCEPT ![t] = IF @ = NoOut THEN NoOut
                                ELSE Append(@, LIndex(list, it[t].num))]
    /\ UNCHANGED <<prev, others>>

\* lines 24-27 on an iterator that has not ended yet: RUnlock, EOI
IterNextEnd(t) ==
    /\ CanNext(t)
    /\ IterAtEnd(it[t])
    /\ it[t].rel = 0
    /\ RUnlockThenReturn(t, [NoRet EXCEPT !.op = "Next", !.kind = "EOI"])
    /\ it' = [it EXCEPT ![t].rel = @ + 1]
    /\ UNCHANGED <<list, wowner, nextId, args, locals, calls, pre, preR, added>>
    /\ UNCHANGED <<ghost, others>>

\* lines 24-27 again, on an iterator that already returned EOI: the cursor is
\* still at the bound, so RUnlock is called once more
IterNextAfterEnd(t) ==
    /\ CanNext(t)
    /\ IterAtEnd(it[t])
    /\ it[t].rel >= 1
    /\ it[t].rel < MaxRelease
    /\ RUnlockThenReturn(t, [NoRet EXCEPT !.op = "Next", !.kind = "EOI"])
    /\ it' = [it EXCEPT ![t].rel = @ + 1]
    /\ UNCHANGED <<list, wowner, nextId, args, locals, calls, pre, preR, added>>
    /\ UNCHANGED <<ghost, others>>

\* ----------------------------------------------------------------- Del
DelRet(okv, e) == [NoRet EXCEPT !.op = "Del", !.ok = okv, !.err = e]

\* defer self.delLock.Unlock(), with the return
UnlockThenReturn(t, r) ==
    /\ wowner' = 0
    /\ Returns(t, r)
    /\ ClearLocals(t)

\* lines 95-100: from == to returns true before any lock
CallDel(t, F, A) ==
    /\ CanCall(t)
    /\ \E f \in F, a \in A :
        /\ Called(t, f, a)
        /\ IF DelIsNoop(f, a)
           THEN /\ Returns(t, DelRet(TRUE, "nil"))
                /\ UNCHANGED <<from, to>>
           ELSE /\ pc' = [pc EXCEPT ![t] = "del_lock"]
                /\ from' = [from EXCEPT ![t] = f]
                /\ to' = [to EXCEPT ![t] = a]
                /\ UNCHANGED ret
    /\ UNCHANGED <<list, lock, nextId, l, rest, evt, it, added>>
    /\ out' = [out EXCEPT ![t] = NoOut]
    /\ prev' = [prev EXCEPT ![t] = NoPrev]
    /\ UNCHANGED others

\* line 102: Lock, first half: the writer announces itself
DelLock(t) ==
    /\ pc[t] = "del_lock"
    /\ LockFree
    /\ wowner' = t
    /\ pc' = [pc EXCEPT ![t] = "del_wait"]
    /\ UNCHANGED <<list, readers, crashed, nextId, args, locals, it, ret, calls,
                   pre, preR, added>>
    /\ UNCHANGED <<ghost, others>>

\* line 102: Lock, second half: the readers have left
DelLockWait(t) ==
    /\ pc[t] = "del_wait"
    /\ LockGranted
    /\ pc' = [pc EXCEPT ![t] = "del_first"]
    /\ UNCHANGED <<list, lock, nextId, args, locals, it, ret, calls, pre, preR,
                   added>>
    /\ UNCHANGED <<ghost, others>>

\* lines 105-111: the whole-stream sentinel clears the list
DelWhole(t) ==
    /\ pc[t] = "del_first"
    /\ DelIsWhole(from[t], to[t])
    /\ list' = << >>
    /\ UnlockThenReturn(t, DelRet(DelClearRet(LClear(list)), "nil"))
    /\ UNCHANGED <<readers, crashed, nextId, args, it, calls, pre, preR, added>>
    /\ UNCHANGED <<ghost, others>>

\* lines 113-145: LLen, normalization, and the choice of the branch
DelLLen(t) ==
    /\ pc[t] = "del_first"
    /\ ~DelIsWhole(from[t], to[t])
    /\ LET len == LLen(list)
           t2 == Normalize(to[t], len)
           f2 == Normalize(from[t], len)
           branch == IF DelIsWholeNormalized(f2, t2, len) THEN "del_clear"
                     ELSE IF f2 = 0 THEN "del_prefix"
                     ELSE IF t2 = len THEN "del_suffix"
                     ELSE IF checkRange(f2, t2, len) # "nil" THEN "invalid"
                     ELSE "del_lrange"
       IN IF branch = "invalid"
          THEN /\ UnlockThenReturn(t, DelRet(FALSE, checkRange(f2, t2, len)))
          ELSE /\ pc' = [pc EXCEPT ![t] = branch]
               /\ from' = [from EXCEPT ![t] = f2]
               /\ to' = [to EXCEPT ![t] = t2]
               /\ l' = [l EXCEPT ![t] = len]
               /\ UNCHANGED <<wowner, ret, rest, evt>>
    /\ UNCHANGED <<list, readers, crashed, nextId, args, it, calls, pre, preR,
                   added>>
    /\ UNCHANGED <<ghost, others>>

\* lines 125-131
DelClear(t) ==
    /\ pc[t] = "del_clear"
    /\ list' = << >>
    /\ UnlockThenReturn(t, DelRet(DelClearRet(LClear(list)), "nil"))
    /\ UNCHANGED <<readers, crashed, nextId, args, it, calls, pre, preR, added>>
    /\ UNCHANGED <<ghost, others>>

\* lines 133-136
DelPrefix(t) ==
    /\ pc[t] = "del_prefix"
    /\ list' = DelPrefixTrim(list, to[t], l[t])
    /\ UnlockThenReturn(t, DelRet(TRUE, "nil"))
    /\ UNCHANGED <<readers, crashed, nextId, args, it, calls, pre, preR, added>>
    /\ UNCHANGED <<ghost, others>>

\* lines 138-141
DelSuffix(t) ==
    /\ pc[t] = "del_suffix"
    /\ list' = DelSuffixTrim(list, from[t])
    /\ UnlockThenReturn(t, DelRet(TRUE, "nil"))
    /\ UNCHANGED <<readers, crashed, nextId, args, it, calls, pre, preR, added>>
    /\ UNCHANGED <<ghost, others>>

\* lines 147-151: the tail is read into memory
DelLRange(t) ==
    /\ pc[t] = "del_lrange"
    /\ rest' = [rest EXCEPT ![t] = DelTail(list, to[t], l[t])]
    /\ pc' = [pc EXCEPT ![t] = "del_trim"]
    /\ UNCHANGED <<list, lock, nextId, args, from, to, l, evt, it, ret, calls,
                   pre, preR, added>>
    /\ UNCHANGED <<ghost, others>>

\* lines 153-155: the list is cut down to the head
DelTrim(t) ==
    /\ pc[t] = "del_trim"
    /\ list' = DelHeadTrim(list, from[t])
    /\ pc' = [pc EXCEPT ![t] = "del_rpush"]
    /\ UNCHANGED <<lock, nextId, args, locals, it, ret, calls, pre, preR, added>>
    /\ UNCHANGED <<ghost, others>>

\* lines 157-162: the tail is appended again
DelRPush(t) ==
    /\ pc[t] = "del_rpush"
    /\ list' = DelReappend(list, rest[t])
    /\ UnlockThenReturn(t, DelRet(TRUE, "nil"))
    /\ UNCHANGED <<readers, crashed, nextId, args, it, calls, pre, preR, added>>
    /\ UNCHANGED <<ghost, others>>

\* a Del holds the write lock: from Lock's return to the deferred Unlock
DelCritical == {"del_first", "del_clear", "del_prefix", "del_suffix",
                "del_lrange", "del_trim", "del_rpush"}

\* ------------------------------------------------- storage-engine failures
\* the errors an engine call may return; the handle passes them on unchanged
EngineErrs == {"ErrEngineIO", "ErrEngineClosed"}

\* Read, lines 71-74: LLen fails; return nil, err, the read lock still held
ReadLLenFail(t) ==
    /\ pc[t] = "read_llen"
    /\ \E e \in EngineErrs : Returns(t, [NoRet EXCEPT !.op = "Read", !.err = e])
    /\ ClearLocals(t)
    /\ UNCHANGED <<list, lock, nextId, args, it, calls, pre, preR, added>>
    /\ UNCHANGED <<ghost, others>>

\* Del, lines 113-116: LLen fails; return false, err
DelLLenFail(t) ==
    /\ pc[t] = "del_first"
    /\ ~DelIsWhole(from[t], to[t])
    /\ \E e \in EngineErrs : UnlockThenReturn(t, DelRet(FALSE, e))
    /\ UNCHANGED <<list, readers, crashed, nextId, args, it, calls, pre, preR,
                   added>>
    /\ UNCHANGED <<ghost, others>>

\* Del, lines 148-151: LRange fails; return false, err
DelLRangeFail(t) ==
    /\ pc[t] = "del_lrange"
    /\ \E e \in EngineErrs : UnlockThenReturn(t, DelRet(FALSE, e))
    /\ UNCHANGED <<list, readers, crashed, nextId, args, it, calls, pre, preR,
                   added>>
    /\ UNCHANGED <<ghost, others>>

\* Del, lines 153-155: LTrim fails and has trimmed nothing; return false, err
DelTrimFail(t) ==
    /\ pc[t] = "del_trim"
    /\ \E e \in EngineErrs : UnlockThenReturn(t, DelRet(FALSE, e))
    /\ UNCHANGED <<list, readers, crashed, nextId, args, it, calls, pre, preR,
                   added>>
    /\ UNCHANGED <<ghost, others>>

\* Del, lines 158-162: RPush fails after the trim and has appended nothing;
\* the failure is logged, and return err == nil, err
DelRPushFail(t) ==
    /\ pc[t] = "del_rpush"
    /\ \E e \in EngineErrs : UnlockThenReturn(t, DelRet(e = "nil", e))
    /\ UNCHANGED <<list, readers, crashed, nextId, args, it, calls, pre, preR,
                   added>>
    /\ UNCHANGED <<ghost, others>>

\* ---------------------------------------------------------------- Next
Step(t, F, A) ==
    \/ AddBadPayload(t)
    \/ CallAdd(t)
    \/ AddRLock(t)
    \/ AddRPush(t)
    \/ AddRUnlock(t)
    \/ CallRead(t, F, A)
    \/ ReadRLock(t)
    \/ ReadLLen(t)
    \/ IterNextFetch(t)
    \/ IterNextEnd(t)
    \/ IterNextAfterEnd(t)
    \/ CallDel(t, F, A)
    \/ DelLock(t)
    \/ DelLockWait(t)
    \/ DelWhole(t)
    \/ DelLLen(t)
    \/ DelClear(t)
    \/ DelPrefix(t)
    \/ DelSuffix(t)
    \/ DelLRange(t)
    \/ DelTrim(t)
    \/ DelRPush(t)

\* every thread calls into the handle
Next == \E t \in Threads : Step(t, ConcFromArgs, ConcToArgs)

Spec == Init /\ [][Next]_vars

\* one caller at a time
NextSeq == \E t \in SeqThreads : Step(t, FromArgs, ToArgs)

SpecSeq == InitSeq /\ [][NextSeq]_vars

\* concurrent Adds and Reads whose iterators are driven to their end and no
\* further, no Del
StepAddRead(t, F, A) ==
    \/ AddBadPayload(t)
    \/ CallAdd(t)
    \/ AddRLock(t)
    \/ AddRPush(t)
    \/ AddRUnlock(t)
    \/ CallRead(t, F, A)
    \/ ReadRLock(t)
    \/ ReadLLen(t)
    \/ IterNextFetch(t)
    \/ IterNextEnd(t)

NextAddRead == \E t \in Threads : StepAddRead(t, ConcFromArgs, ConcToArgs)

SpecAddRead == Init /\ [][NextAddRead]_vars

\* callers that keep the iterator contract: no Next on an iterator that has
\* returned EOI
StepContract(t, F, A) ==
    \/ AddBadPayload(t)
    \/ CallAdd(t)
    \/ AddRLock(t)
    \/ AddRPush(t)
    \/ AddRUnlock(t)
    \/ CallRead(t, F, A)
    \/ ReadRLock(t)
    \/ ReadLLen(t)
    \/ IterNextFetch(t)
    \/ IterNextEnd(t)
    \/ CallDel(t, F, A)
    \/ DelLock(t)
    \/ DelLockWait(t)
    \/ DelWhole(t)
    \/ DelLLen(t)
    \/ DelClear(t)
    \/ DelPrefix(t)
    \/ DelSuffix(t)
    \/ DelLRange(t)
    \/ DelTrim(t)
    \/ DelRPush(t)

NextContract == \E t \in Threads : StepContract(t, ConcFromArgs, ConcToArgs)

SpecContract == Init /\ [][NextContract]_vars

\* one caller, over an engine whose calls may fail
StepFault(t, F, A) ==
    \/ Step(t, F, A)
    \/ ReadLLenFail(t)
    \/ DelLLenFail(t)
    \/ DelLRangeFail(t)
    \/ DelTrimFail(t)
    \/ DelRPushFail(t)

NextFault == \E t \in SeqThreads : StepFault(t, FromArgs, ToArgs)

SpecFault == InitSeq /\ [][NextFault]_vars

\* ------------------------------------------------ the registry (create.go)
\* a bug: a second registration replaces the first
RegIsDuplicate_Never(b, n) == FALSE

\* RegisterCreator, lines 22-23: _, ok := backends[btype]; if ok
RegIsDuplicate(b, n) == b[n] # NoCreator

\* Create, lines 35-36: r, ok := backends[btype]; if !ok
CreateIsUnknown(b, n) == b[n] = NoCreator

\* the creators of RegisterDefault, lines 60-66: a backend for a string
\* argument, an error for any other
Invoke(c, a) ==
    IF a = "string" THEN [NoRRet EXCEPT !.op = "Create", !.backend = c]
    ELSE [NoRRet EXCEPT !.op = "Create", !.err = "InvalidConfig"]

CanCallRegistry(t) == rpc[t] = "idle" /\ rcalls[t] < MaxRegOps

CallsRegistry(t, a) ==
    /\ rcalls' = [rcalls EXCEPT ![t] = @ + 1]
    /\ rarg' = [rarg EXCEPT ![t] = a]
    /\ rpc' = [rpc EXCEPT ![t] = "block_lock"]

\* the deferred block.Unlock(), with the return
BlockUnlockThenReturn(t, r) ==
    /\ block' = 0
    /\ rpc' = [rpc EXCEPT ![t] = "idle"]
    /\ rret' = [rret EXCEPT ![t] = r]

CallRegisterCreator(t) ==
    /\ CanCallRegistry(t)
    /\ \E n \in TypeNames, c \in Creators :
        CallsRegistry(t, [NoRArg EXCEPT !.op = "Register", !.btype = n,
                                        !.creator = c])
    /\ UNCHANGED <<backends, block, rret, invoked>>
    /\ UNCHANGED <<streamvars, ghost, tablevars>>

CallCreate(t) ==
    /\ CanCallRegistry(t)
    /\ \E n \in TypeNames, a \in ConfigArgs :
        CallsRegistry(t, [NoRArg EXCEPT !.op = "Create", !.btype = n, !.arg = a])
    /\ UNCHANGED <<backends, block, rret, invoked>>
    /\ UNCHANGED <<streamvars, ghost, tablevars>>

CallCreatorTypes(t) ==
    /\ CanCallRegistry(t)
    /\ CallsRegistry(t, [NoRArg EXCEPT !.op = "Types"])
    /\ UNCHANGED <<backends, block, rret, invoked>>
    /\ UNCHANGED <<streamvars, ghost, tablevars>>

\* lines 15, 32, 43: block.Lock()
BlockLock(t) ==
    /\ rpc[t] = "block_lock"
    /\ block = 0
    /\ block' = t
    /\ rpc' = [rpc EXCEPT ![t] = rarg[t].op]
    /\ UNCHANGED <<backends, rarg, rret, invoked, rcalls>>
    /\ UNCHANGED <<streamvars, ghost, tablevars>>

\* RegisterCreator, lines 18-28
RegisterBody(t) ==
    /\ rpc[t] = "Register"
    /\ IF RegIsDuplicate(backends, rarg[t].btype)
       THEN /\ BlockUnlockThenReturn(t, [NoRRet EXCEPT !.op = "Register",
                                                !.err = "DuplicateType"])
            /\ UNCHANGED backends
       ELSE /\ backends' = [backends EXCEPT ![rarg[t].btype] = rarg[t].creator]
            /\ BlockUnlockThenReturn(t, [NoRRet EXCEPT !.op = "Register"])
    /\ UNCHANGED <<rarg, invoked, rcalls>>
    /\ UNCHANGED <<streamvars, ghost, tablevars>>

\* Create, lines 35-39: the creator is called with block held
CreateBody(t) ==
    /\ rpc[t] = "Create"
    /\ IF CreateIsUnknown(backends, rarg[t].btype)
       THEN /\ BlockUnlockThenReturn(t, [NoRRet EXCEPT !.op = "Create",
                                                !.err = "UnknownType"])
            /\ UNCHANGED invoked
       ELSE /\ invoked' = invoked + 1
            /\ BlockUnlockThenReturn(t, Invoke(backends[rarg[t].btype],
                                               rarg[t].arg))
    /\ UNCHANGED <<backends, rarg, rcalls>>
    /\ UNCHANGED <<streamvars, ghost, tablevars>>

\* CreatorTypes, lines 46-50
CreatorTypesBody(t) ==
    /\ rpc[t] = "Types"
    /\ BlockUnlockThenReturn(t,
           [NoRRet EXCEPT !.op = "Types",
                          !.types = {n \in TypeNames : backends[n] # NoCreator}])
    /\ UNCHANGED <<backends, rarg, invoked, rcalls>>
    /\ UNCHANGED <<streamvars, ghost, tablevars>>

StepRegistry(t) ==
    \/ CallRegisterCreator(t)
    \/ CallCreate(t)
    \/ CallCreatorTypes(t)
    \/ BlockLock(t)
    \/ RegisterBody(t)
    \/ CreateBody(t)
    \/ CreatorTypesBody(t)

NextRegistry == \E t \in Threads : StepRegistry(t)

SpecRegistry == Init /\ [][NextRegistry]_vars

\* --------------------------------- the backend's table of handles (ledis.go)
\* a bug: the lookup never finds the handle, every GetStream constructs one
GetFound_Never(d, isNil, n) == FALSE

\* GetStream, lines 210-211: v, ok := self.data[name]; a nil map has no entry
GetFound(d, isNil, n) == ~isNil /\ d[n] # NoHandle

\* a bug: the entry is evicted while one holder is left
ReleaseEvicts_Early(cnt) == cnt = 1

\* release, line 238: if s.refcnt == 0
ReleaseEvicts(cnt) == cnt = 0

tlocals == <<bname, bv, snap>>
handles == <<refcnt, hname, nextH>>
table == <<data, dataNil>>
ending == <<closes, engineClosed, panicked>>

\* the deferred self.lock.Unlock(), with the return
TableUnlockThenReturn(t) ==
    /\ tableLock' = 0
    /\ bpc' = [bpc EXCEPT ![t] = "idle"]

CallGetStream(t) ==
    /\ bpc[t] = "idle"
    /\ bcalls[t] < MaxTableOps
    /\ \E n \in StreamNames : bname' = [bname EXCEPT ![t] = n]
    /\ bcalls' = [bcalls EXCEPT ![t] = @ + 1]
    /\ bpc' = [bpc EXCEPT ![t] = "get_lock"]
    /\ UNCHANGED <<table, tableLock, handles, bv, snap, holds, bret, ending>>
    /\ UNCHANGED <<streamvars, ghost, regvars>>

\* line 207
GetLock(t) ==
    /\ bpc[t] = "get_lock"
    /\ tableLock = 0
    /\ tableLock' = t
    /\ bpc' = [bpc EXCEPT ![t] = "get_lookup"]
    /\ UNCHANGED <<table, handles, tlocals, holds, bret, bcalls, ending>>
    /\ UNCHANGED <<streamvars, ghost, regvars>>

\* lines 210-211: self.data is loaded and searched
GetLookup(t) ==
    /\ bpc[t] = "get_lookup"
    /\ snap' = [snap EXCEPT ![t] = dataNil]
    /\ IF GetFound(data, dataNil, bname[t])
       THEN /\ bv' = [bv EXCEPT ![t] = data[bname[t]]]
            /\ bpc' = [bpc EXCEPT ![t] = "get_incr"]
       ELSE /\ bpc' = [bpc EXCEPT ![t] = "get_insert"]
            /\ UNCHANGED bv
    /\ UNCHANGED <<table, tableLock, handles, bname, holds, bret, bcalls, ending>>
    /\ UNCHANGED <<streamvars, ghost, regvars>>

\* lines 212-213: a handle is constructed with refcnt 0 and stored under the
\* name
GetInsert(t) ==
    /\ bpc[t] = "get_insert"
    /\ ~dataNil
    /\ hname' = [hname EXCEPT ![nextH] = bname[t]]
    /\ nextH' = nextH + 1
    /\ bv' = [bv EXCEPT ![t] = nextH]
    /\ data' = [data EXCEPT ![bname[t]] = nextH]
    /\ bpc' = [bpc EXCEPT ![t] = "get_incr"]
    /\ UNCHANGED <<dataNil, tableLock, refcnt, bname, snap, holds, bret, bcalls,
                   ending>>
    /\ UNCHANGED <<streamvars, ghost, regvars>>

\* line 213 when self.data is nil (after Close): the assignment to an entry of
\* a nil map panics, the deferred Unlock runs and the process ends
GetInsertPanic(t) ==
    /\ bpc[t] = "get_insert"
    /\ dataNil
    /\ panicked' = TRUE
    /\ tableLock' = 0
    /\ bpc' = [u \in Threads |-> "dead"]
    /\ UNCHANGED <<table, handles, tlocals, holds, bret, bcalls, closes,
                   engineClosed>>
    /\ UNCHANGED <<streamvars, ghost, regvars>>

\* line 213 when Close has set self.data to nil since line 210 loaded it, and
\* the store goes to the map line 210 loaded: the handle lands in the detached
\* map (the unsynchronized write of Close races with lines 210-213)
GetInsertDetached(t) ==
    /\ bpc[t] = "get_insert"
    /\ dataNil
    /\ ~snap[t]
    /\ hname' = [hname EXCEPT ![nextH] = bname[t]]
    /\ nextH' = nextH + 1
    /\ bv' = [bv EXCEPT ![t] = nextH]
    /\ bpc' = [bpc EXCEPT ![t] = "get_incr"]
    /\ UNCHANGED <<table, tableLock, refcnt, bname, snap, holds, bret, bcalls,
                   ending>>
    /\ UNCHANGED <<streamvars, ghost, regvars>>

\* lines 216-217: v.refcnt += 1; return v, nil
GetIncr(t) ==
    /\ bpc[t] = "get_incr"
    /\ refcnt' = [refcnt EXCEPT ![bv[t]] = @ + 1]
    /\ holds' = [holds EXCEPT ![t][bv[t]] = @ + 1]
    /\ bret' = [bret EXCEPT ![t] = bv[t]]
    /\ TableUnlockThenReturn(t)
    /\ UNCHANGED <<table, hname, nextH, tlocals, bcalls, ending>>
    /\ UNCHANGED <<streamvars, ghost, regvars>>

\* a caller that is done with a handle it holds gives it up
CallRelease(t) ==
    /\ bpc[t] = "idle"
    /\ \E h \in HandleIds :
        /\ holds[t][h] > 0
        /\ holds' = [holds EXCEPT ![t][h] = @ - 1]
        /\ bv' = [bv EXCEPT ![t] = h]
    /\ bpc' = [bpc EXCEPT ![t] = "rel_lock"]
    /\ UNCHANGED <<table, tableLock, handles, bname, snap, bret, bcalls, ending>>
    /\ UNCHANGED <<streamvars, ghost, regvars>>

\* line 234
ReleaseLock(t) ==
    /\ bpc[t] = "rel_lock"
    /\ tableLock = 0
    /\ tableLock' = t
    /\ bpc' = [bpc EXCEPT ![t] = "rel_decr"]
    /\ UNCHANGED <<table, handles, tlocals, holds, bret, bcalls, ending>>
    /\ UNCHANGED <<streamvars, ghost, regvars>>

\* lines 237-240: s.refcnt -= 1; at 0 the entry under s.name is deleted
\* (deleting from a nil map does nothing)
ReleaseDecr(t) ==
    /\ bpc[t] = "rel_decr"
    /\ refcnt' = [refcnt EXCEPT ![bv[t]] = @ - 1]
    /\ data' = IF ReleaseEvicts(refcnt[bv[t]] - 1) /\ ~dataNil
               THEN [data EXCEPT ![hname[bv[t]]] = NoHandle]
               ELSE data
    /\ TableUnlockThenReturn(t)
    /\ UNCHANGED <<dataNil, hname, nextH, tlocals, holds, bret, bcalls, ending>>
    /\ UNCHANGED <<streamvars, ghost, regvars>>

\* Close, line 228: self.data = nil, self.lock not taken
CloseDetach(t) ==
    /\ bpc[t] = "idle"
    /\ closes = 0
    /\ closes' = 1
    /\ dataNil' = TRUE
    /\ data' = [n \in StreamNames |-> NoHandle]
    /\ bpc' = [bpc EXCEPT ![t] = "close_engine"]
    /\ UNCHANGED <<tableLock, handles, tlocals, holds, bret, bcalls,
                   engineClosed, panicked>>
    /\ UNCHANGED <<streamvars, ghost, regvars>>

\* Close, lines 229-230: self.ledis.Close(); return nil
CloseEngine(t) ==
    /\ bpc[t] = "close_engine"
    /\ engineClosed' = TRUE
    /\ bpc' = [bpc EXCEPT ![t] = "idle"]
    /\ UNCHANGED <<table, tableLock, handles, tlocals, holds, bret, bcalls,
                   closes, panicked>>
    /\ UNCHANGED <<streamvars, ghost, regvars>>

\* GetStream and release on an open backend
StepTable(t) ==
    \/ CallGetStream(t)
    \/ GetLock(t)
    \/ GetLookup(t)
    \/ GetInsert(t)
    \/ GetIncr(t)
    \/ CallRelease(t)
    \/ ReleaseLock(t)
    \/ ReleaseDecr(t)

NextTable == \E t \in Threads : StepTable(t)

SpecTable == Init /\ [][NextTable]_vars

\* GetStream, release and Close
StepBackend(t) ==
    \/ StepTable(t)
    \/ GetInsertPanic(t)
    \/ GetInsertDetached(t)
    \/ CloseDetach(t)
    \/ CloseEngine(t)

NextBackend == \E t \in Threads : StepBackend(t)

SpecBackend == Init /\ [][NextBackend]_vars

\* ------------------------------------------------------------ the claims
\* what a caller sees once its call has returned
Returned(t, op) == pc[t] = "idle" /\ ret[t].op = op

\* the elements [a, b) of s, indices from 0
Slice(s, a, b) == SubSeq(s, a + 1, b)

\* C1: a Del(from, to) with 0 < from < to < L that returned without an error
\* returned true and left the original elements [0, from) followed by the
\* original elements [to, L), L - (to - from) of them.
C1_MiddleDel ==
    \A t \in SeqThreads :
        ( /\ Returned(t, "Del")
          /\ ret[t].err = "nil"
          /\ 0 < afrom[t] /\ afrom[t] < ato[t] /\ ato[t] < Len(pre[t]) )
        => /\ ret[t].ok
           /\ list = Slice(pre[t], 0, afrom[t]) \o Slice(pre[t], ato[t], Len(pre[t]))
           /\ Len(list) = Len(pre[t]) - (ato[t] - afrom[t])

\* Del(1, 4) on five events has left the first and the last
C1_Witness ==
    \E t \in SeqThreads :
        /\ Returned(t, "Del")
        /\ pre[t] = Stream(5) /\ afrom[t] = 1 /\ ato[t] = 4
        /\ ret[t].ok /\ list = <<1, 5>>

\* C2: a Del(0, to) with 0 < to < L leaves exactly the original elements
\* [to, L), L - to of them.
C2_PrefixDel ==
    \A t \in SeqThreads :
        ( /\ Returned(t, "Del")
          /\ ret[t].err = "nil"
          /\ afrom[t] = 0 /\ 0 < ato[t] /\ ato[t] < Len(pre[t]) )
        => /\ list = Slice(pre[t], ato[t], Len(pre[t]))
           /\ Len(list) = Len(pre[t]) - ato[t]

\* C3: a Del(from, L) or Del(from, -1) with 0 < from < L leaves exactly the
\* original elements [0, from), from of them.
C3_SuffixDel ==
    \A t \in SeqThreads :
        ( /\ Returned(t, "Del")
          /\ ret[t].err = "nil"
          /\ 0 < afrom[t] /\ afrom[t] < Len(pre[t])
          /\ ato[t] = Len(pre[t]) \/ ato[t] = 0 - 1 )
        => /\ ret[t].ok
           /\ list = Slice(pre[t], 0, afrom[t])
           /\ Len(list) = afrom[t]

\* Del(2, -1) on four events has left the first two
C3_Witness ==
    \E t \in SeqThreads :
        /\ Returned(t, "Del")
        /\ pre[t] = Stream(4) /\ afrom[t] = 2 /\ ato[t] = 0 - 1
        /\ ret[t].ok /\ list = <<1, 2>>

\* C4: Del(0, -1) empties a non-empty stream and returns true, and leaves an
\* empty stream empty and returns false; Del(0, L) with L > 0 empties the
\* stream and returns true.
C4_WholeDel ==
    \A t \in SeqThreads :
        ( /\ Returned(t, "Del")
          /\ afrom[t] = 0
          /\ ato[t] = 0 - 1 \/ (ato[t] = Len(pre[t]) /\ Len(pre[t]) > 0) )
        => /\ list = << >>
           /\ ret[t].err = "nil"
           /\ ret[t].ok = (pre[t] # << >>)

\* Del(0, -1) has emptied a stream of three events
C4_Witness ==
    \E t \in SeqThreads :
        /\ Returned(t, "Del")
        /\ pre[t] = Stream(3) /\ afrom[t] = 0 /\ ato[t] = 0 - 1
        /\ ret[t].ok /\ list = << >>

\* C5: Read(x, x) and Del(x, x) change nothing: the call never reaches a lock
\* step, and once it has returned the stream and the lock are as they were
\* when it was made, Read having returned the empty sequence and Del true.
C5_EmptyRangeNoop ==
    \A t \in SeqThreads :
        afrom[t] = ato[t] =>
            /\ pc[t] \notin {"read_rlock", "read_llen", "del_lock", "del_wait"} \cup DelCritical
            /\ Returned(t, "Read") =>
                  /\ list = pre[t] /\ readers = preR[t] /\ wowner = 0
                  /\ ret[t].kind = "empty" /\ ret[t].err = "nil" /\ it[t] = NoIt
            /\ Returned(t, "Del") =>
                  /\ list = pre[t] /\ readers = preR[t] /\ wowner = 0
                  /\ ret[t].ok /\ ret[t].err = "nil"

\* Del(2, 2) has returned true on an empty stream, where 2 is past the end
C5_Witness ==
    \E t \in SeqThreads :
        /\ Returned(t, "Del")
        /\ pre[t] = << >> /\ afrom[t] = 2 /\ ato[t] = 2
        /\ ret[t].ok /\ list = << >>

\* Del and Read as one caller runs them from call to return on the list s:
\* the steps above composed
DelSeq(s, f, a) ==
    IF DelIsNoop(f, a) THEN [list |-> s, ok |-> TRUE, err |-> "nil"]
    ELSE IF DelIsWhole(f, a)
    THEN [list |-> << >>, ok |-> DelClearRet(LClear(s)), err |-> "nil"]
    ELSE LET len == LLen(s)
             t2 == Normalize(a, len)
             f2 == Normalize(f, len)
         IN IF DelIsWholeNormalized(f2, t2, len)
            THEN [list |-> << >>, ok |-> DelClearRet(LClear(s)), err |-> "nil"]
            ELSE IF f2 = 0
            THEN [list |-> DelPrefixTrim(s, t2, len), ok |-> TRUE, err |-> "nil"]
            ELSE IF t2 = len
            THEN [list |-> DelSuffixTrim(s, f2), ok |-> TRUE, err |-> "nil"]
            ELSE IF checkRange(f2, t2, len) # "nil"
            THEN [list |-> s, ok |-> FALSE, err |-> checkRange(f2, t2, len)]
            ELSE [list |-> DelReappend(DelHeadTrim(s, f2), DelTail(s, t2, len)),
                  ok |-> TRUE, err |-> "nil"]

ReadSeq(s, f, a) ==
    IF ReadIsEmpty(f, a) THEN [seq |-> << >>, err |-> "nil"]
    ELSE LET len == LLen(s)
             t2 == Normalize(a, len)
             f2 == Normalize(f, len)
         IN IF ReadIsEmptyNormalized(f2, t2) THEN [seq |-> << >>, err |-> "nil"]
            ELSE IF checkRange(f2, t2, len) # "nil"
            THEN [seq |-> << >>, err |-> checkRange(f2, t2, len)]
            ELSE [seq |-> [i \in 1 .. (t2 - f2) |-> LIndex(s, f2 + i - 1)],
                  err |-> "nil"]

\* the elements the iterator a Read has just returned yields when drained
Drained(t) ==
    IF ret[t].kind = "iter"
    THEN [i \in 1 .. (it[t].l - it[t].num) |-> LIndex(list, it[t].num + i - 1)]
    ELSE << >>

\* a single caller's Del and Read end as DelSeq and ReadSeq say
SeqAgrees ==
    \A t \in SeqThreads :
        /\ Returned(t, "Del") =>
              /\ list = DelSeq(pre[t], afrom[t], ato[t]).list
              /\ ret[t].ok = DelSeq(pre[t], afrom[t], ato[t]).ok
              /\ ret[t].err = DelSeq(pre[t], afrom[t], ato[t]).err
        /\ Returned(t, "Read") =>
              /\ Drained(t) = ReadSeq(pre[t], afrom[t], ato[t]).seq
              /\ ret[t].err = ReadSeq(pre[t], afrom[t], ato[t]).err

\* C6: a Read or Del called with to written as the negative offset to - L - 1,
\* for from <= to <= L, ends as the same call with the positive to does: the
\* same sequence from Read, the same stream and return value from Del.
C6_NegativeOffset ==
    \A t \in SeqThreads :
        LET len == Len(pre[t])
            tp == ato[t] + len + 1
        IN ( ato[t] < 0 /\ afrom[t] <= tp /\ tp <= len ) =>
            /\ Returned(t, "Del") =>
                  /\ list = DelSeq(pre[t], afrom[t], tp).list
                  /\ ret[t].ok = DelSeq(pre[t], afrom[t], tp).ok
                  /\ ret[t].err = DelSeq(pre[t], afrom[t], tp).err
            /\ Returned(t, "Read") =>
                  /\ Drained(t) = ReadSeq(pre[t], afrom[t], tp).seq
                  /\ ret[t].err = ReadSeq(pre[t], afrom[t], tp).err

\* C6, on the stream alone: the negative form of Del leaves the stream the
\* positive form leaves
C6_NegativeOffsetStream ==
    \A t \in SeqThreads :
        LET len == Len(pre[t])
            tp == ato[t] + len + 1
        IN ( Returned(t, "Del") /\ ato[t] < 0 /\ afrom[t] <= tp /\ tp <= len )
            => list = DelSeq(pre[t], afrom[t], tp).list

\* the payloads of the Add calls made so far with a well-formed payload
Pushed == (ConcLen + 1) .. (nextId - 1)

Occurrences(e) == Cardinality({i \in DOMAIN list : list[i] = e})

\* C7: concurrent Adds, interleaved with each other and with iterators in
\* flight, never wait for each other and never fail; every Add that has
\* returned left its event in the stream exactly once, the initial events stay
\* in front, and once all calls have returned the length is the initial length
\* plus the number of Adds, each added event present exactly once.
C7_ConcurrentAdds ==
    /\ ~crashed
    /\ \A t \in Threads : pc[t] = "add_rlock" => RLockFree
    /\ Slice(list, 0, ConcLen) = Stream(ConcLen)
    /\ added \subseteq Pushed
    /\ \A e \in added : Occurrences(e) = 1
    /\ \A e \in Pushed : Occurrences(e) <= 1
    /\ (\A t \in Threads : pc[t] = "idle") =>
          /\ added = Pushed
          /\ Len(list) = ConcLen + Cardinality(Pushed)

\* two Adds have returned while another thread's iterator is half-way
C7_Witness ==
    /\ \A t \in Threads : pc[t] = "idle"
    /\ Cardinality(added) = 2
    /\ Len(list) = ConcLen + 2
    /\ \E t \in Threads : it[t] # NoIt /\ it[t].rel = 0 /\ it[t].num > 0

\* an iterator fetches an element; an Add appends
Fetches(t) == pc[t] = "idle" /\ it[t] # NoIt /\ it'[t] # NoIt /\ it'[t].num = it[t].num + 1

Appends(t) == pc[t] = "add_push" /\ pc'[t] = "add_unlock"

\* C8: while a Del is between acquiring and releasing the write lock, no Add
\* appends and no iterator fetches an element.
C8_Exclusion ==
    [][ (\E d \in Threads : pc[d] \in DelCritical)
            => \A t \in Threads : ~Fetches(t) /\ ~Appends(t) ]_vars

\* C9: an iterator releases the read lock at most once, however often Next
\* is called on it.
C9_ReleasedOnce == \A t \in Threads : it[t].rel <= 1

\* C10: a Read with from # to whose range is empty after normalization returns
\* the empty sequence and leaves as many read locks held as there were when
\* it was called.
C10_EmptyAfterNormalization ==
    \A t \in SeqThreads :
        ( /\ Returned(t, "Read")
          /\ afrom[t] # ato[t]
          /\ Normalize(afrom[t], Len(pre[t])) = Normalize(ato[t], Len(pre[t])) )
        => /\ ret[t].kind = "empty"
           /\ readers = preR[t]

\* the range a Del or Read call names, after normalization against the
\* length of the stream the call found
NormFrom(t) == Normalize(afrom[t], Len(pre[t]))

NormTo(t) == Normalize(ato[t], Len(pre[t]))

\* C11: a Del whose normalized range violates 0 <= from <= to <= length fails
\* with an invalid-range error and leaves the stream as it was.
C11_InvalidRangeDel ==
    \A t \in SeqThreads :
        ( /\ Returned(t, "Del")
          /\ afrom[t] # ato[t]
          /\ ~(afrom[t] = 0 /\ ato[t] = 0 - 1)
          /\ ~( /\ 0 <= NormFrom(t)
                /\ NormFrom(t) <= NormTo(t)
                /\ NormTo(t) <= Len(pre[t]) ) )
        => /\ ret[t].err = "InvalidRange"
           /\ ~ret[t].ok
           /\ list = pre[t]

\* C17: a Read that returned an error returned no iterator and left as many
\* read locks held as there were when it was called.
C17_FailedReadLock ==
    \A t \in SeqThreads :
        ( Returned(t, "Read") /\ ret[t].err # "nil" )
        => /\ it[t] = NoIt
           /\ readers = preR[t]

\* C20: a Del whose arguments differ but whose range is empty after
\* normalization, inside the stream, leaves the stream as it was.
C20_EmptyNormalizedDel ==
    \A t \in SeqThreads :
        ( /\ Returned(t, "Del")
          /\ afrom[t] # ato[t]
          /\ NormFrom(t) = NormTo(t)
          /\ NormFrom(t) <= Len(pre[t]) )
        => /\ list = pre[t]
           /\ Len(list) = Len(pre[t])

\* every sequence a Read returned has ended: no thread holds an iterator that
\* has not returned EOI
AllSequencesEnded == \A u \in Threads : it[u] = NoIt \/ it[u].rel >= 1

\* C18: a Del makes progress: when it waits for the readers to leave while
\* every sequence a Read returned has ended and every other call has
\* returned, no read lock is held, so the Del takes the lock and goes on.
C18_DelProceeds ==
    \A t \in Threads :
        ( /\ pc[t] = "del_wait"
          /\ AllSequencesEnded
          /\ \A u \in Threads \ {t} : pc[u] = "idle" )
        => LockGranted

\* C12: a middle-range Del that failed either left the stream as it was, or,
\* when the re-append failed after the trim, left the original elements
\* [0, from) and returned a failure that is none of the errors a Del returns
\* when it has changed nothing.
C12_MiddleDelFailure ==
    \A t \in SeqThreads :
        ( /\ Returned(t, "Del")
          /\ ret[t].err # "nil"
          /\ 0 < afrom[t] /\ afrom[t] < ato[t] /\ ato[t] < Len(pre[t]) )
        => /\ ~ret[t].ok
           /\ \/ list = pre[t]
              \/ /\ list = Slice(pre[t], 0, afrom[t])
                 /\ ret[t].err \notin EngineErrs \cup {"InvalidRange"}

\* C13: a registered name keeps its creator for ever; RegisterCreator for a
\* name that is registered returns the duplicate-type error and changes
\* nothing; Create for a name that is not registered returns the unknown-type
\* error and calls no creator.
C13_Registry ==
    [][ /\ \A n \in TypeNames :
            backends[n] # NoCreator => backends'[n] = backends[n]
        /\ \A t \in Threads :
            ( /\ rpc[t] = "Register" /\ rpc'[t] = "idle"
              /\ backends[rarg[t].btype] # NoCreator )
            => /\ rret'[t].err = "DuplicateType"
               /\ backends' = backends
        /\ \A t \in Threads :
            ( /\ rpc[t] = "Create" /\ rpc'[t] = "idle"
              /\ backends[rarg[t].btype] = NoCreator )
            => /\ rret'[t].err = "UnknownType"
               /\ rret'[t].backend = NoCreator
               /\ invoked' = invoked ]_vars

\* one thread's second registration of a name was refused and left the other
\* thread's creator in place, while the other thread's Create of the name
\* that was never registered was refused
C13_Witness ==
    \E t, u \in Threads, n, m \in TypeNames :
        /\ rpc[t] = "idle" /\ rpc[u] = "idle"
        /\ rarg[t] = [NoRArg EXCEPT !.op = "Register", !.btype = n, !.creator = 2]
        /\ rret[t].err = "DuplicateType"
        /\ backends[n] = 1
        /\ rarg[u].op = "Create" /\ rarg[u].btype = m
        /\ rret[u].err = "UnknownType"
        /\ backends[m] = NoCreator
        /\ invoked = 0

\* the handles a caller holds, and the handles in use
Held(t, h) == holds[t][h] > 0

Holders(h) ==
    LET sum[T \in SUBSET Threads] ==
            IF T = {} THEN 0
            ELSE LET x == CHOOSE y \in T : TRUE IN holds[x][h] + sum[T \ {x}]
    IN sum[Threads]

\* calls of release(h) that have not decremented yet
Releasing(h) ==
    Cardinality({t \in Threads : bpc[t] \in {"rel_lock", "rel_decr"} /\ bv[t] = h})

Constructed(h) == h < nextH

InTable(h) == ~dataNil /\ data[hname[h]] = h

\* C14: the callers that hold a handle for the same name hold the same
\* handle, and the handles in use have different names.
C14_OneHandlePerName ==
    /\ \A t, u \in Threads : \A h, g \in HandleIds :
        (Held(t, h) /\ Held(u, g) /\ hname[h] = hname[g]) => h = g
    /\ \A h, g \in HandleIds :
        ( /\ Constructed(h) /\ Constructed(g)
          /\ refcnt[h] >= 1 /\ refcnt[g] >= 1
          /\ hname[h] = hname[g] ) => h = g

\* after the first handle of a name was evicted, both threads hold the second
C14_Witness ==
    \E h \in HandleIds :
        /\ h >= 2
        /\ Held(1, h) /\ Held(2, h)
        /\ \E g \in HandleIds : g < h /\ hname[g] = hname[h] /\ refcnt[g] = 0

\* C15: a handle's count is the number of GetStream calls that returned it
\* less the number of release calls that have decremented it; whenever the
\* table lock is free the handle is in the table exactly if its count is at
\* least 1; the stream's data stay as they were.
C15_RefCount ==
    /\ \A h \in HandleIds :
        /\ refcnt[h] = Holders(h) + Releasing(h)
        /\ (Constructed(h) /\ tableLock = 0) => (InTable(h) <=> refcnt[h] >= 1)
        /\ ~Constructed(h) => refcnt[h] = 0
    /\ list = Stream(ConcLen)

\* a handle that two callers held has been released twice and evicted
C15_Witness ==
    \E h \in HandleIds :
        /\ Constructed(h)
        /\ bret[1] = h /\ bret[2] = h
        /\ refcnt[h] = 0
        /\ tableLock = 0
        /\ data[hname[h]] = NoHandle

\* C16: a Read of the range of the Read before it, with the stream as that
\* Read found it, yields the same events and the same error once its sequence
\* has ended, and does not wait for the lock.
C16_ReadTwice ==
    \A t \in SeqThreads :
        /\ ( /\ prev[t] # NoPrev
             /\ pc[t] = "idle"
             /\ it[t] = NoIt \/ it[t].rel >= 1
             /\ list = pre[t] )
           => Yielded(t) = prev[t]
        /\ (prev[t] # NoPrev /\ pc[t] = "read_rlock") => RLockFree

\* a second Read(1, 3) has yielded the two events the first yielded
C16_Witness ==
    \E t \in SeqThreads :
        /\ prev[t] # NoPrev
        /\ afrom[t] = 1 /\ ato[t] = 3
        /\ it[t] # NoIt /\ it[t].rel = 1
        /\ out[t] = <<2, 3>>
        /\ prev[t].out = <<2, 3>>

\* the step of thread t writes the table or a count
TableWrittenBy(t) ==
    /\ bpc'[t] # bpc[t]
    /\ data' # data \/ dataNil' # dataNil \/ refcnt' # refcnt

\* C19: every step that writes the table or a handle's count is taken by the
\* thread that holds the table lock, and the engine is never called with the
\* table lock held.
C19_TableUnderLock ==
    [][ \A t \in Threads :
            /\ TableWrittenBy(t) => tableLock = t
            /\ (bpc'[t] # bpc[t] /\ engineClosed' # engineClosed)
               => tableLock # t ]_vars

====
